---- MODULE Spec2Model ----
(***************************************************************************)
(* The two doxygen converters of the repository, run on the same file:     *)
(*   Design A  src/doxygen_converter.py                                    *)
(*             DoxygenConverter.convert = __parse_file ; __add_docstrings  *)
(*   Design B  src/doxygen_converter/doxygen_converter.py                  *)
(*             DoxygenConverter.complete_convert                           *)
(*                                                                         *)
(* A line of text is a sequence of lexemes ending with the newline lexeme; *)
(* every lexeme stands for the literal text it spells.  The regular        *)
(* expressions of the source are operators over such sequences; re.match   *)
(* anchors at the start of the line only, '.' matches every lexeme but the *)
(* newline and \s matches the blank and the newline.                       *)
(***************************************************************************)
EXTENDS Naturals, Sequences, FiniteSets

SP == " "
NL == "\n"
QQQ == "\"\"\""

IsWs(t) == t \in {SP, NL}

\* Number of leading lexemes matched by a greedy \s*.
RECURSIVE Lead(_)
Lead(txt) == IF txt # <<>> /\ IsWs(Head(txt)) THEN 1 + Lead(Tail(txt)) ELSE 0

\* txt[k] when the line is that long, a lexeme no pattern asks for otherwise.
At(txt, k) == IF k >= 1 /\ k <= Len(txt) THEN txt[k] ELSE "<end>"

\* What a greedy (.*) captures from position k on: the lexemes up to the newline.
RECURSIVE Rest(_, _)
Rest(txt, k) ==
    IF k > Len(txt) \/ txt[k] = NL THEN <<>> ELSE <<txt[k]>> \o Rest(txt, k + 1)

\* The positions p >= k that hold lexeme c and are reached from k over '.' only.
DotReach(txt, k, c) ==
    {p \in k..Len(txt) : txt[p] = c /\ \A j \in k..(p - 1) : txt[j] # NL}

Max(S) == CHOOSE m \in S : \A n \in S : n <= m

\* ---- src/doxygen_converter.py:13  BRIEF = \s*##\s@brief\s(.*)
BRIEF(txt) ==
    LET k == Lead(txt) IN
    /\ At(txt, k + 1) = "#" /\ At(txt, k + 2) = "#" /\ IsWs(At(txt, k + 3))
    /\ At(txt, k + 4) = "@" /\ At(txt, k + 5) = "brief" /\ IsWs(At(txt, k + 6))
BRIEF_1(txt) == Rest(txt, Lead(txt) + 7)

\* ---- src/doxygen_converter.py:16  MODULE = ##\s@package\s(.*)
MODULE_PAT(txt) ==
    /\ At(txt, 1) = "#" /\ At(txt, 2) = "#" /\ IsWs(At(txt, 3))
    /\ At(txt, 4) = "@" /\ At(txt, 5) = "package" /\ IsWs(At(txt, 6))

\* ---- src/doxygen_converter/doxygen_converter.py:12
\* DOXYGEN_START = \s*##\s(@brief|@class|@file|@package)\s(.*)
DOXYGEN_START(txt) ==
    LET k == Lead(txt) IN
    /\ At(txt, k + 1) = "#" /\ At(txt, k + 2) = "#" /\ IsWs(At(txt, k + 3))
    /\ At(txt, k + 4) = "@"
    /\ At(txt, k + 5) \in {"brief", "class", "file", "package"}
    /\ IsWs(At(txt, k + 6))
DOXYGEN_START_2(txt) == Rest(txt, Lead(txt) + 7)

\* ---- FUNCTION_DEF = (\s*)def\s(.*)\(.*:   (line 14 of both files)
\* The greedy (.*) ends at the last '(' that a ':' still follows.
FunctionParen(txt) ==
    LET k == Lead(txt) IN
    {p \in DotReach(txt, k + 3, "(") : DotReach(txt, p + 1, ":") # {}}
FUNCTION_DEF(txt) ==
    LET k == Lead(txt) IN
    /\ At(txt, k + 1) = "def" /\ IsWs(At(txt, k + 2))
    /\ FunctionParen(txt) # {}
FUNCTION_DEF_1(txt) == SubSeq(txt, 1, Lead(txt))
FUNCTION_DEF_2(txt) == SubSeq(txt, Lead(txt) + 3, Max(FunctionParen(txt)) - 1)

\* ---- CLASS_DEF = (\s*)class\s(.*):   (line 15 of both files)
ClassColon(txt) == DotReach(txt, Lead(txt) + 3, ":")
CLASS_DEF(txt) ==
    LET k == Lead(txt) IN
    /\ At(txt, k + 1) = "class" /\ IsWs(At(txt, k + 2))
    /\ ClassColon(txt) # {}
CLASS_DEF_1(txt) == SubSeq(txt, 1, Lead(txt))
CLASS_DEF_2(txt) == SubSeq(txt, Lead(txt) + 3, Max(ClassColon(txt)) - 1)

\* ---- OTHER = \s*#\s\s(.*)   (line 17 of both files)
OTHER_PAT(txt) ==
    LET k == Lead(txt) IN
    /\ At(txt, k + 1) = "#" /\ IsWs(At(txt, k + 2)) /\ IsWs(At(txt, k + 3))
OTHER_PAT_1(txt) == Rest(txt, Lead(txt) + 4)

\* ---- DECORATOR = \s*@.*   (line 18 of both files)
DECORATOR(txt) == At(txt, Lead(txt) + 1) = "@"

\* ---- SHEBANG = #!.*   (line 19 of both files)
SHEBANG(txt) == At(txt, 1) = "#" /\ At(txt, 2) = "!"

\* line == "\n"
IsBlank(txt) == txt = <<NL>>


(***************************************************************************)
(* Lines and files.  A line carries its text and two history fields that   *)
(* the converters never read: src, the position the line had in the input  *)
(* file (0 for a line a converter inserted), and doc, for an inserted      *)
(* content line the input position of the annotation line it was captured  *)
(* from (0 otherwise).                                                     *)
(***************************************************************************)
Ln(words) == words \o <<NL>>

L_SHEBANG   == Ln(<<"#", "!", "python">>)
L_BLANK     == <<NL>>
L_BRIEF_X   == Ln(<<"#", "#", SP, "@", "brief", SP, "x">>)
L_BRIEF_Y   == Ln(<<"#", "#", SP, "@", "brief", SP, "y">>)
L_PACKAGE   == Ln(<<"#", "#", SP, "@", "package", SP, "p">>)
L_FILE      == Ln(<<"#", "#", SP, "@", "file", SP, "q">>)
L_OTHER     == Ln(<<"#", SP, SP, "z">>)
L_DECORATOR == Ln(<<"@", "staticmethod">>)
L_DEF_F     == Ln(<<"def", SP, "f", "(", ")", ":">>)
L_CLASS_G   == Ln(<<"class", SP, "g", ":">>)
L_BODY      == Ln(<<SP, SP, SP, SP, "pass">>)
\* An annotation whose text is itself a definition header, and one whose
\* text is itself an annotation start.
L_BRIEF_DEF   == Ln(<<"#", "#", SP, "@", "brief", SP, "def", SP, "f", "(", ")", ":">>)
L_OTHER_BRIEF == Ln(<<"#", SP, SP, "#", "#", SP, "@", "brief", SP, "x">>)

LineSet ==
    {L_SHEBANG, L_BLANK, L_BRIEF_X, L_BRIEF_Y, L_PACKAGE, L_FILE, L_OTHER, L_DECORATOR,
     L_DEF_F, L_CLASS_G, L_BODY, L_BRIEF_DEF, L_OTHER_BRIEF}

\* The largest number of lines of an enumerated input file.
MaxLen == 3
\* pass 2 of Design A is followed while the line list is at most this long.
MaxCode == 30

RECURSIVE SeqsUpTo(_, _)
SeqsUpTo(S, n) ==
    IF n = 0 THEN {<<>>}
    ELSE LET shorter == SeqsUpTo(S, n - 1) IN
         shorter \cup {Append(s, x) : s \in {t \in shorter : Len(t) = n - 1}, x \in S}

\* file_to_array: the lines of the file, in order.
file_to_array(texts) ==
    [i \in 1..Len(texts) |-> [txt |-> texts[i], src |-> i, doc |-> 0]]

Inserted(txt, doc) == [txt |-> txt, src |-> 0, doc |-> doc]
Origin(line) == IF line.src # 0 THEN line.src ELSE line.doc
Captured(txt, line) == [txt |-> txt, doc |-> Origin(line)]

Texts(code) == [i \in 1..Len(code) |-> code[i].txt]

\* Mutant of PyInsert: code[i] = x, the line at i is overwritten.
PyInsertOver(code, i, x) ==
    IF i >= Len(code) THEN Append(code, x) ELSE [code EXCEPT ![i + 1] = x]

\* list.insert(i, x), i counted from 0: past the end of the list it appends.
PyInsert(code, i, x) ==
    IF i >= Len(code) THEN Append(code, x)
    ELSE SubSeq(code, 1, i) \o <<x>> \o SubSeq(code, i + 1, Len(code))

\* list.pop(i), i counted from 0.
PyPop(code, i) == SubSeq(code, 1, i) \o SubSeq(code, i + 2, Len(code))

\* code.insert(at, lines[1]); code.insert(at + 1, lines[2]); ...
RECURSIVE InsertEach(_, _, _)
InsertEach(code, at, lines) ==
    IF lines = <<>> THEN code
    ELSE InsertEach(PyInsert(code, at, Head(lines)), at + 1, Tail(lines))

INDENT == <<SP, SP, SP, SP>>

\* The lines of a literal block: f'{indent}"""!\n', f"{indent}{line}\n" for
\* each line of the buffer, f'{indent}"""\n'.
Docstring(indent, buffer) ==
    <<Inserted(indent \o <<QQQ, "!", NL>>, 0)>>
    \o [i \in 1..Len(buffer) |-> Inserted(indent \o buffer[i].txt \o <<NL>>, buffer[i].doc)]
    \o <<Inserted(indent \o <<QQQ, NL>>, 0)>>

\* The module's literal block: '"""\n', f"{line}\n" for each line, '"""\n'.
ModuleDocstring(buffer) ==
    <<Inserted(<<QQQ, NL>>, 0)>>
    \o [i \in 1..Len(buffer) |-> Inserted(buffer[i].txt \o <<NL>>, buffer[i].doc)]
    \o <<Inserted(<<QQQ, NL>>, 0)>>

MODULE_KEY == <<"module">>

\* Mutant of Put: an entry already in the table is kept.
PutFirst(docs, key, buffer) ==
    [k \in DOMAIN docs \cup {key} |-> IF k \in DOMAIN docs THEN docs[k] ELSE buffer]

\* docstrings[key] = buffer
Put(docs, key, buffer) ==
    [k \in DOMAIN docs \cup {key} |-> IF k = key THEN buffer ELSE docs[k]]

(***************************************************************************)
(* Design A, pass 1: the body of the loop of __parse_file.                 *)
(***************************************************************************)
\* Mutant of ParseLine: the branch for decorator lines is missing.
ParseLine_NoDecorator(docs, tmp, code, flag, line) ==
    LET st == [docstrings |-> docs, temp |-> tmp, code |-> code,
               flag |-> flag, fault |-> FALSE]
        t == line.txt
    IN
    IF BRIEF(t) /\ ~flag THEN
        [st EXCEPT !.temp = Append(tmp, Captured(BRIEF_1(t), line)), !.flag = TRUE]
    ELSE IF MODULE_PAT(t) /\ ~flag THEN
        [st EXCEPT !.flag = TRUE]
    ELSE IF FUNCTION_DEF(t) /\ flag THEN
        [st EXCEPT !.docstrings = Put(docs, FUNCTION_DEF_2(t), tmp),
                   !.flag = FALSE, !.temp = <<>>, !.code = Append(code, line)]
    ELSE IF CLASS_DEF(t) /\ flag THEN
        [st EXCEPT !.docstrings = Put(docs, CLASS_DEF_2(t), tmp),
                   !.flag = FALSE, !.temp = <<>>, !.code = Append(code, line)]
    ELSE IF IsBlank(t) /\ flag THEN
        [st EXCEPT !.docstrings = Put(docs, MODULE_KEY, tmp),
                   !.flag = FALSE, !.temp = <<>>, !.code = Append(code, line)]
    ELSE IF flag THEN
        \* OTHER.match(line)[1]: subscripting None raises TypeError
        IF OTHER_PAT(t)
        THEN [st EXCEPT !.temp = Append(tmp, Captured(OTHER_PAT_1(t), line))]
        ELSE [st EXCEPT !.fault = TRUE]
    ELSE
        [st EXCEPT !.code = Append(code, line)]

ParseLine(docs, tmp, code, flag, line) ==
    LET st == [docstrings |-> docs, temp |-> tmp, code |-> code,
               flag |-> flag, fault |-> FALSE]
        t == line.txt
    IN
    IF BRIEF(t) /\ ~flag THEN
        [st EXCEPT !.temp = Append(tmp, Captured(BRIEF_1(t), line)), !.flag = TRUE]
    ELSE IF MODULE_PAT(t) /\ ~flag THEN
        [st EXCEPT !.flag = TRUE]
    ELSE IF FUNCTION_DEF(t) /\ flag THEN
        [st EXCEPT !.docstrings = Put(docs, FUNCTION_DEF_2(t), tmp),
                   !.flag = FALSE, !.temp = <<>>, !.code = Append(code, line)]
    ELSE IF CLASS_DEF(t) /\ flag THEN
        [st EXCEPT !.docstrings = Put(docs, CLASS_DEF_2(t), tmp),
                   !.flag = FALSE, !.temp = <<>>, !.code = Append(code, line)]
    ELSE IF IsBlank(t) /\ flag THEN
        [st EXCEPT !.docstrings = Put(docs, MODULE_KEY, tmp),
                   !.flag = FALSE, !.temp = <<>>, !.code = Append(code, line)]
    ELSE IF DECORATOR(t) /\ flag THEN
        [st EXCEPT !.code = Append(code, line)]
    ELSE IF flag THEN
        \* OTHER.match(line)[1]: subscripting None raises TypeError
        IF OTHER_PAT(t)
        THEN [st EXCEPT !.temp = Append(tmp, Captured(OTHER_PAT_1(t), line))]
        ELSE [st EXCEPT !.fault = TRUE]
    ELSE
        [st EXCEPT !.code = Append(code, line)]

(***************************************************************************)
(* Design A, pass 2: the body of the while loop of __add_docstrings, up to *)
(* (not including) line_idx += 1.  idx counts from 0 as line_idx does.     *)
(***************************************************************************)
AddLine(docs, code, idx) ==
    LET t == code[idx + 1].txt IN
    IF SHEBANG(t) /\ MODULE_KEY \in DOMAIN docs THEN
        InsertEach(code, idx + 2, ModuleDocstring(docs[MODULE_KEY]))
    ELSE IF FUNCTION_DEF(t) THEN
        LET indent == FUNCTION_DEF_1(t) \o INDENT
            function == FUNCTION_DEF_2(t)
        IN IF function \in DOMAIN docs
           THEN InsertEach(code, idx + 1, Docstring(indent, docs[function]))
           ELSE code
    ELSE IF CLASS_DEF(t) THEN
        LET indent == CLASS_DEF_1(t) \o INDENT
            function == CLASS_DEF_2(t)
        IN IF function \in DOMAIN docs
           THEN InsertEach(code, idx + 1, Docstring(indent, docs[function]))
           ELSE code
    ELSE code


(***************************************************************************)
(* Design B: complete_convert.  BStart is the if of lines 108-111, BBlock  *)
(* one iteration of the inner "while doxygen_flag" loop of lines 112-145.  *)
(***************************************************************************)
\* Mutant of BStart: every comment line that matches OTHER opens a block too.
BStart_AnyComment(code, dox, flag, idx) ==
    LET line == code[idx + 1] IN
    IF (DOXYGEN_START(line.txt) \/ OTHER_PAT(line.txt)) /\ ~flag
    THEN [code |-> PyPop(code, idx),
          doxygen |-> Append(dox, Captured(Rest(line.txt, Lead(line.txt) + 4), line)),
          flag |-> TRUE]
    ELSE [code |-> code, doxygen |-> dox, flag |-> flag]

BStart(code, dox, flag, idx) ==
    LET line == code[idx + 1] IN
    IF DOXYGEN_START(line.txt) /\ ~flag
    THEN [code |-> PyPop(code, idx),
          doxygen |-> Append(dox, Captured(DOXYGEN_START_2(line.txt), line)),
          flag |-> TRUE]
    ELSE [code |-> code, doxygen |-> dox, flag |-> flag]

BBlock(code, dox, flag, idx) ==
    LET st == [code |-> code, doxygen |-> dox, flag |-> flag, idx |-> idx,
               fault |-> FALSE]
    IN
    \* code[line_idx] past the end of the list raises IndexError
    IF idx >= Len(code) THEN [st EXCEPT !.fault = TRUE]
    ELSE
    LET line == code[idx + 1]
        t == line.txt
    IN
    IF DECORATOR(t) /\ flag THEN
        [st EXCEPT !.idx = idx + 1]
    ELSE IF FUNCTION_DEF(t) /\ flag THEN
        [st EXCEPT !.code = InsertEach(code, idx + 1,
                                Docstring(FUNCTION_DEF_1(t) \o INDENT, dox)),
                   !.flag = FALSE, !.doxygen = <<>>]
    ELSE IF CLASS_DEF(t) /\ flag THEN
        [st EXCEPT !.code = InsertEach(code, idx + 1,
                                Docstring(CLASS_DEF_1(t) \o INDENT, dox)),
                   !.flag = FALSE, !.doxygen = <<>>]
    ELSE IF IsBlank(t) /\ flag THEN
        [st EXCEPT !.code = InsertEach(code, idx, ModuleDocstring(dox)),
                   !.flag = FALSE, !.doxygen = <<>>]
    ELSE
        \* OTHER.match(code[line_idx])[1]: subscripting None raises TypeError
        IF OTHER_PAT(t)
        THEN [st EXCEPT !.doxygen = Append(dox, Captured(OTHER_PAT_1(t), line)),
                        !.code = PyPop(code, idx)]
        ELSE [st EXCEPT !.fault = TRUE]

(***************************************************************************)
(* Input files: every file of at most MaxLen lines over LineSet, and four  *)
(* longer ones.                                                            *)
(***************************************************************************)
\* src/example_input.py, identifiers and prose shortened to one lexeme each;
\* its last line has no newline.
EXAMPLE_INPUT ==
    << L_SHEBANG,
       L_BLANK,
       L_PACKAGE,
       L_OTHER,
       L_BLANK,
       L_BRIEF_X,
       Ln(<<"class", SP, "TestClass", ":">>),
       L_BLANK,
       Ln(INDENT \o <<"#", "#", SP, "@", "brief", SP, "y">>),
       Ln(INDENT \o <<"#", SP, SP, "@", "param", SP, "param1">>),
       Ln(INDENT \o <<"#", SP, SP, "@", "param", SP, "param2">>),
       Ln(INDENT \o <<"#", SP, SP, "@", "return">>),
       Ln(INDENT \o <<"@", "staticmethod">>),
       Ln(INDENT \o <<"def", SP, "test_function", "(", "param1", ":", SP, "str", ",",
                      SP, "param2", ":", SP, "int", ")", SP, "->", SP, "str", ":">>),
       INDENT \o INDENT \o <<"return", SP, "param1", SP, "*", SP, "param2">> >>

\* Two definitions of the same name, each with its own annotation.
EXAMPLE_SAME_NAME == <<L_BRIEF_X, L_DEF_F, L_BODY, L_BRIEF_Y, L_DEF_F, L_BODY>>

\* A decorated definition right after the shebang and, further down, an
\* annotation followed by a blank line.
EXAMPLE_DECORATED ==
    <<L_SHEBANG, L_BRIEF_X, L_DECORATOR, L_DEF_F, L_BODY, L_BRIEF_Y, L_BLANK>>

\* An annotation whose text reads like the header of another annotated
\* definition.
EXAMPLE_NESTED == <<L_BRIEF_DEF, L_CLASS_G, L_BRIEF_X, L_DEF_F>>

Examples == {EXAMPLE_INPUT, EXAMPLE_SAME_NAME, EXAMPLE_DECORATED, EXAMPLE_NESTED}

Inputs == SeqsUpTo(LineSet, MaxLen) \cup Examples

VARIABLES
    input,       \* the texts of the lines of the file given to both converters
    runA,        \* 1: Design A converts input; 2: it converts its own output
    fileA,       \* Design A: the lines __parse_file reads in this run
    docstrings,  \* Design A: docstrings
    temp,        \* Design A: temp
    codeA,       \* Design A: code
    flagA,       \* Design A: doxygen_flag
    idxA,        \* Design A: lines read by pass 1, then line_idx of pass 2
    pcA,         \* Design A: "parse", "add", "done", "fault"
    outA,        \* Design A: the lines written by run 1
    runB,        \* as runA, for Design B
    codeB,       \* Design B: code
    doxygen,     \* Design B: doxygen
    flagB,       \* Design B: doxygen_flag
    idxB,        \* Design B: line_idx
    pcB,         \* Design B: "wait", "outer", "inner", "done", "fault"
    outB         \* Design B: the lines written by run 1

varsA == <<runA, fileA, docstrings, temp, codeA, flagA, idxA, pcA, outA>>
varsB == <<runB, codeB, doxygen, flagB, idxB, pcB, outB>>
vars == <<input, varsA, varsB>>

NoDocs == [k \in {} |-> <<>>]

Init ==
    /\ input \in Inputs
    /\ runA = 1
    /\ fileA = file_to_array(input)
    /\ docstrings = NoDocs
    /\ temp = <<>>
    /\ codeA = <<>>
    /\ flagA = FALSE
    /\ idxA = 0
    /\ pcA = "parse"
    /\ outA = <<>>
    /\ runB = 1
    /\ codeB = file_to_array(input)
    /\ doxygen = <<>>
    /\ flagB = FALSE
    /\ idxB = 0
    /\ pcB = "wait"
    /\ outB = <<>>

\* ---- Design A --------------------------------------------------------
\* one iteration of "for line in file_to_array(file_path)"
parse_file_line ==
    /\ pcA = "parse"
    /\ idxA < Len(fileA)
    /\ LET r == ParseLine(docstrings, temp, codeA, flagA, fileA[idxA + 1]) IN
       /\ docstrings' = r.docstrings
       /\ temp' = r.temp
       /\ codeA' = r.code
       /\ flagA' = r.flag
       /\ pcA' = IF r.fault THEN "fault" ELSE "parse"
    /\ idxA' = idxA + 1
    /\ UNCHANGED <<input, runA, fileA, outA, varsB>>

\* return (docstrings, code); __add_docstrings starts with line_idx = 0
parse_file_return ==
    /\ pcA = "parse"
    /\ idxA = Len(fileA)
    /\ pcA' = "add"
    /\ idxA' = 0
    /\ UNCHANGED <<input, runA, fileA, docstrings, temp, codeA, flagA, outA, varsB>>

\* one iteration of "while line_idx < len(code)"
add_docstrings_line ==
    /\ pcA = "add"
    /\ idxA < Len(codeA)
    /\ Len(codeA) <= MaxCode
    /\ codeA' = AddLine(docstrings, codeA, idxA)
    /\ idxA' = idxA + 1
    /\ UNCHANGED <<input, runA, fileA, docstrings, temp, flagA, pcA, outA, varsB>>

\* return code; __write_to_file
add_docstrings_return ==
    /\ pcA = "add"
    /\ idxA >= Len(codeA)
    /\ pcA' = "done"
    /\ outA' = IF runA = 1 THEN codeA ELSE outA
    /\ UNCHANGED <<input, runA, fileA, docstrings, temp, codeA, flagA, idxA, varsB>>

\* convert() once more, on the file the first run wrote
convert_again ==
    /\ pcA = "done"
    /\ runA = 1
    /\ runA' = 2
    /\ fileA' = outA
    /\ docstrings' = NoDocs
    /\ temp' = <<>>
    /\ codeA' = <<>>
    /\ flagA' = FALSE
    /\ idxA' = 0
    /\ pcA' = "parse"
    /\ UNCHANGED <<input, outA, varsB>>

\* Design A has stopped: it raised, it wrote its second output, or pass 2
\* has grown the line list past MaxCode and is followed no further.
CutA == pcA = "add" /\ idxA < Len(codeA) /\ Len(codeA) > MaxCode
StoppedA == pcA = "fault" \/ (pcA = "done" /\ runA = 2) \/ CutA

\* ---- Design B --------------------------------------------------------
\* complete_convert is called on the same file once Design A has stopped
complete_convert_call ==
    /\ pcB = "wait"
    /\ StoppedA
    /\ pcB' = "outer"
    /\ UNCHANGED <<input, varsA, runB, codeB, doxygen, flagB, idxB, outB>>

\* the head of an iteration of "while line_idx < len(code)": lines 108-111,
\* and line 146 when no block was opened
complete_convert_outer ==
    /\ pcB = "outer"
    /\ idxB < Len(codeB)
    /\ Len(codeB) <= MaxCode
    /\ LET r == BStart(codeB, doxygen, flagB, idxB) IN
       /\ codeB' = r.code
       /\ doxygen' = r.doxygen
       /\ flagB' = r.flag
       /\ pcB' = IF r.flag THEN "inner" ELSE "outer"
       /\ idxB' = IF r.flag THEN idxB ELSE idxB + 1
    /\ UNCHANGED <<input, varsA, runB, outB>>

\* one iteration of "while doxygen_flag", and line 146 when it was the last
complete_convert_inner ==
    /\ pcB = "inner"
    /\ Len(codeB) <= MaxCode
    /\ LET r == BBlock(codeB, doxygen, flagB, idxB) IN
       /\ codeB' = r.code
       /\ doxygen' = r.doxygen
       /\ flagB' = r.flag
       /\ pcB' = IF r.fault THEN "fault" ELSE IF r.flag THEN "inner" ELSE "outer"
       /\ idxB' = IF r.fault \/ r.flag THEN r.idx ELSE r.idx + 1
    /\ UNCHANGED <<input, varsA, runB, outB>>

\* __write_to_file
complete_convert_return ==
    /\ pcB = "outer"
    /\ idxB >= Len(codeB)
    /\ pcB' = "done"
    /\ outB' = IF runB = 1 THEN codeB ELSE outB
    /\ UNCHANGED <<input, varsA, runB, codeB, doxygen, flagB, idxB>>

\* complete_convert() once more, on the file the first run wrote
complete_convert_again ==
    /\ pcB = "done"
    /\ runB = 1
    /\ runB' = 2
    /\ codeB' = outB
    /\ doxygen' = <<>>
    /\ flagB' = FALSE
    /\ idxB' = 0
    /\ pcB' = "outer"
    /\ UNCHANGED <<input, varsA, outB>>

CutB == pcB \in {"outer", "inner"} /\ idxB < Len(codeB) /\ Len(codeB) > MaxCode
StoppedB == pcB = "fault" \/ (pcB = "done" /\ runB = 2) \/ CutB

Next ==
    \/ parse_file_line
    \/ parse_file_return
    \/ add_docstrings_line
    \/ add_docstrings_return
    \/ convert_again
    \/ complete_convert_call
    \/ complete_convert_outer
    \/ complete_convert_inner
    \/ complete_convert_return
    \/ complete_convert_again

Spec == Init /\ [][Next]_vars


(***************************************************************************)
(* What the claims speak of, read off the input file alone.  d is "A" or  *)
(* "B".                                                                    *)
(***************************************************************************)
IsHeader(t) == FUNCTION_DEF(t) \/ CLASS_DEF(t)
HeaderIndent(t) == IF FUNCTION_DEF(t) THEN FUNCTION_DEF_1(t) ELSE CLASS_DEF_1(t)
HeaderName(t) == IF FUNCTION_DEF(t) THEN FUNCTION_DEF_2(t) ELSE CLASS_DEF_2(t)
IsStart(d, t) == IF d = "A" THEN BRIEF(t) \/ MODULE_PAT(t) ELSE DOXYGEN_START(t)

\* Whether an annotation block is open after lines 1..i of the file: a start
\* line opens one, a header or a blank line closes it.
RECURSIVE OpenAfter(_, _, _)
OpenAfter(file, i, d) ==
    IF i = 0 THEN FALSE
    ELSE IF OpenAfter(file, i - 1, d)
         THEN ~(IsHeader(file[i]) \/ IsBlank(file[i]))
         ELSE IsStart(d, file[i])

\* Line i is part of an annotation block: it starts one, or it is read inside
\* one and is no header, blank line or decorator.
Annotation(file, i, d) ==
    IF OpenAfter(file, i - 1, d)
    THEN ~(IsHeader(file[i]) \/ IsBlank(file[i]) \/ DECORATOR(file[i]))
    ELSE IsStart(d, file[i])

\* Line i is read inside a block and is neither header, blank line, decorator
\* nor continuation line.
Mismatch(file, i, d) ==
    /\ OpenAfter(file, i - 1, d)
    /\ ~(IsHeader(file[i]) \/ IsBlank(file[i]) \/ DECORATOR(file[i]))
    /\ ~OTHER_PAT(file[i])

\* The first line of the block that is open before line h.
BlockStart(file, h, d) == Max({s \in 1..(h - 1) : ~OpenAfter(file, s - 1, d)})

\* The annotation lines of the block that line h ends.
BlockLines(file, h, d) ==
    {i \in BlockStart(file, h, d)..(h - 1) : Annotation(file, i, d)}

\* The text an annotation line contributes to the buffer (none for the
\* package line in Design A).
Contributes(file, i, d) ==
    ~(d = "A" /\ ~OpenAfter(file, i - 1, d) /\ ~BRIEF(file[i]))
ContentText(file, i, d) ==
    IF OpenAfter(file, i - 1, d) THEN OTHER_PAT_1(file[i])
    ELSE IF d = "A" THEN BRIEF_1(file[i]) ELSE DOXYGEN_START_2(file[i])

RECURSIVE SortedSeq(_)
SortedSeq(S) ==
    IF S = {} THEN <<>>
    ELSE LET m == Max(S) IN Append(SortedSeq(S \ {m}), m)

\* The content lines of the block that line h ends, in order.
BlockContent(file, h, d) ==
    LET idx == SortedSeq({i \in BlockLines(file, h, d) : Contributes(file, i, d)})
    IN [k \in 1..Len(idx) |-> ContentText(file, idx[k], d)]

\* Line h is a header that ends an annotation block.
AnnotatedHeader(file, h, d) == IsHeader(file[h]) /\ OpenAfter(file, h - 1, d)

\* The lines of the output that come from the input file, and the converter's
\* run-1 output.
Original(code) == SelectSeq(code, LAMBDA l : l.src # 0)
InsertedLines(code) == SelectSeq(code, LAMBDA l : l.src = 0)
Out(d) == IF d = "A" THEN outA ELSE outB
\* Run 1 of the converter has just written its output.
WroteA == runA = 1 /\ pcA = "done"
WroteB == runB = 1 /\ pcB = "done"
Wrote(d) == IF d = "A" THEN WroteA ELSE WroteB
\* Run 1 of the converter has written its output, now or earlier.
DoneA == runA = 2 \/ WroteA
DoneB == runB = 2 \/ WroteB
Designs == {"A", "B"}

\* The input file with its annotation lines deleted.
Residual(d) ==
    SelectSeq(file_to_array(input), LAMBDA l : ~Annotation(input, l.src, d))

\* C2: in both designs, when the conversion completes, deleting the inserted
\* lines from the output yields exactly the input file with its annotation
\* lines deleted: every other line is there once, unchanged and in order.
C2_FramePreserved ==
    \A d \in Designs : Wrote(d) => Original(Out(d)) = Residual(d)

C2_Witness ==
    /\ DoneA /\ DoneB
    /\ \A d \in Designs :
        /\ InsertedLines(Out(d)) # <<>>
        /\ Len(Residual(d)) < Len(input)
        /\ Len(Residual(d)) >= 2

\* C5: in both designs, a file with no annotation start is converted without
\* a fault and the output equals the input, line for line.
NoStart(d) == \A i \in 1..Len(input) : ~IsStart(d, input[i])
C5_Identity ==
    /\ (runA = 1 /\ (pcA \in {"fault", "done"} \/ CutA) /\ NoStart("A")) =>
          (pcA = "done" /\ Texts(outA) = input)
    /\ (runB = 1 /\ (pcB \in {"fault", "done"} \/ CutB) /\ NoStart("B")) =>
          (pcB = "done" /\ Texts(outB) = input)

C5_Witness ==
    /\ NoStart("A") /\ NoStart("B")
    /\ DoneA /\ DoneB /\ runB = 1
    /\ \E i \in 1..Len(input) : SHEBANG(input[i])
    /\ \E i \in 1..Len(input) : IsHeader(input[i])
    /\ \E i \in 1..Len(input) : OTHER_PAT(input[i])


(***************************************************************************)
(* Well-formed input, as C1 defines it: every annotation block starts with *)
(* a "## @brief" or "## @package" line, continues with "#  " lines, may be *)
(* followed by decorator lines and is ended by a header or, for the        *)
(* module's block (the first block of a file that begins with the shebang  *)
(* line), by a blank line; all definition names are distinct.              *)
(***************************************************************************)
BlockStartLine(t) == BRIEF(t) \/ MODULE_PAT(t)

\* mode: "code" outside a block, "block" in its comment lines, "deco" in the
\* decorators that follow them; first: no block has been seen yet.
RECURSIVE WellFormedFrom(_, _, _, _)
WellFormedFrom(file, i, mode, first) ==
    IF i > Len(file) THEN mode = "code"
    ELSE
    LET t == file[i] IN
    IF mode = "code" THEN
        IF BlockStartLine(t) THEN WellFormedFrom(file, i + 1, "block", first)
        ELSE /\ ~DOXYGEN_START(t)
             /\ WellFormedFrom(file, i + 1, "code", first)
    ELSE IF IsHeader(t) THEN WellFormedFrom(file, i + 1, "code", FALSE)
    ELSE IF IsBlank(t) THEN
        /\ mode = "block" /\ first /\ SHEBANG(file[1])
        /\ WellFormedFrom(file, i + 1, "code", FALSE)
    ELSE IF DECORATOR(t) THEN WellFormedFrom(file, i + 1, "deco", first)
    ELSE /\ mode = "block" /\ OTHER_PAT(t)
         /\ WellFormedFrom(file, i + 1, "block", first)

DistinctNames(file) ==
    \A i, j \in 1..Len(file) :
        (i < j /\ IsHeader(file[i]) /\ IsHeader(file[j]))
            => HeaderName(file[i]) # HeaderName(file[j])

WellFormed(file) == WellFormedFrom(file, 1, "code", TRUE) /\ DistinctNames(file)

FinishedA == pcA = "fault" \/ (pcA = "done" /\ runA = 2)
FinishedB == pcB = "fault" \/ (pcB = "done" /\ runB = 2)

\* C1: on every well-formed input Design A and Design B produce the same
\* output line sequence (and one writes an output only if the other does).
C1_SameOutput ==
    (WellFormed(input) /\ StoppedA /\ StoppedB) =>
        /\ DoneA <=> DoneB
        /\ DoneA => Texts(outA) = Texts(outB)

\* The literal block of header line h, as the output has to show it: the
\* header, the opening marker one indent unit deeper, the content lines, the
\* closing marker.
ExpectedRun(file, h, d) ==
    LET indent == HeaderIndent(file[h]) \o INDENT
        content == BlockContent(file, h, d)
    IN <<file[h]>> \o <<indent \o <<QQQ, "!", NL>>>>
       \o [k \in 1..Len(content) |-> indent \o content[k] \o <<NL>>]
       \o <<indent \o <<QQQ, NL>>>>

\* The first line after line h of the input that is no annotation line (0 when
\* there is none): where the body of the definition begins.
BodyLine(file, h, d) ==
    LET later == {k \in (h + 1)..Len(file) : ~Annotation(file, k, d)}
    IN IF later = {} THEN 0 ELSE CHOOSE k \in later : \A j \in later : k <= j

\* out holds, from position p on, the run expected for header h, followed by
\* the body of the definition.
HasRunAt(out, p, file, h, d) ==
    LET run == ExpectedRun(file, h, d)
        q == p + Len(run)
        body == BodyLine(file, h, d)
    IN /\ out[p].src = h
       /\ q - 1 <= Len(out)
       /\ \A k \in 1..Len(run) : out[p + k - 1].txt = run[k]
       /\ \A k \in 2..Len(run) : out[p + k - 1].src = 0
       /\ IF body = 0 THEN q - 1 = Len(out)
          ELSE q <= Len(out) /\ out[q].src = body

\* C3: in both designs, for every header that ends an annotation block of
\* n >= 1 content lines, the output holds as one contiguous run the header,
\* the opening marker indented 4 blanks deeper, the n content lines at that
\* indentation, the closing marker, and then the body of the definition.
C3_DocstringAfterHeader ==
    \A d \in Designs :
        Wrote(d) =>
            \A h \in 1..Len(input) :
                (AnnotatedHeader(input, h, d) /\ BlockContent(input, h, d) # <<>>)
                    => \E p \in 1..Len(Out(d)) : HasRunAt(Out(d), p, input, h, d)

\* The module's block right after the shebang line: line 1 is the shebang,
\* line 2 an unindented start line, lines 3..b-1 continuation lines, line b
\* the blank separator line.
ModuleBlockEnd(file) ==
    {b \in 3..Len(file) :
        /\ SHEBANG(file[1])
        /\ BlockStartLine(file[2]) /\ Lead(file[2]) = 0
        /\ IsBlank(file[b])
        /\ \A i \in 3..(b - 1) : OTHER_PAT(file[i]) /\ ~DECORATOR(file[i])
                                 /\ ~IsHeader(file[i]) /\ ~IsBlank(file[i])}

\* C4: in both designs the literal block of such a module block stands
\* directly after the shebang line and before the blank separator line, which
\* follows the closing marker.
C4_ModuleBlockAfterShebang ==
    \A d \in Designs :
        Wrote(d) =>
            \A b \in ModuleBlockEnd(input) :
                LET out == Out(d)
                    content == BlockContent(input, b, d)
                    n == Len(content)
                IN /\ Len(out) >= n + 4
                   /\ out[1].src = 1
                   /\ out[2].txt = <<QQQ, NL>> /\ out[2].src = 0
                   /\ \A k \in 1..n : out[2 + k].txt = content[k] \o <<NL>>
                   /\ out[n + 3].txt = <<QQQ, NL>> /\ out[n + 3].src = 0
                   /\ out[n + 4].src = b


\* C6: in both designs, when a first conversion completes, no line of an
\* inserted literal block is an annotation start for the converter, and a
\* second conversion of the output completes and leaves it as it is.
C6_SecondRunChangesNothing ==
    /\ DoneA => /\ \A k \in 1..Len(outA) :
                      outA[k].src = 0 => ~IsStart("A", outA[k].txt)
                /\ StoppedA => (pcA = "done" /\ Texts(codeA) = Texts(outA))
    /\ DoneB => /\ \A k \in 1..Len(outB) :
                      outB[k].src = 0 => ~IsStart("B", outB[k].txt)
                /\ (runB = 2 /\ StoppedB) =>
                      (pcB = "done" /\ Texts(codeB) = Texts(outB))

\* The decorator lines that stand between the annotation lines of a block and
\* the header h that ends it: the run of decorators right before h.
DecoratorsBefore(file, h) ==
    {j \in 1..(h - 1) : \A i \in j..(h - 1) : DECORATOR(file[i])}

\* C7: in both designs, the decorators between an annotation block and its
\* header never enter the annotation buffer; the output holds them unchanged
\* and in order immediately before the header line, and the opening marker
\* of the literal block right after the header line.
C7_DecoratorsKept ==
    \A d \in Designs :
        Wrote(d) =>
            \A h \in 1..Len(input) :
                (AnnotatedHeader(input, h, d) /\ DecoratorsBefore(input, h) # {}) =>
                    LET out == Out(d)
                        n == Cardinality(DecoratorsBefore(input, h))
                        indent == HeaderIndent(input[h]) \o INDENT
                    IN /\ \A k \in 1..Len(out) :
                              out[k].doc \notin DecoratorsBefore(input, h)
                       /\ \E p \in (n + 1)..(Len(out) - 1) :
                              /\ out[p].src = h /\ out[p].txt = input[h]
                              /\ \A k \in 1..n :
                                    /\ out[p - k].src = h - k
                                    /\ out[p - k].txt = input[h - k]
                              /\ out[p + 1].src = 0
                              /\ out[p + 1].txt = indent \o <<QQQ, "!", NL>>


(***************************************************************************)
(* Design A: definitions of the same name.                                 *)
(***************************************************************************)
\* The annotated headers of the input that carry the name of header h.
SameName(file, h) ==
    {g \in 1..Len(file) :
        AnnotatedHeader(file, g, "A") /\ HeaderName(file[g]) = HeaderName(file[h])}

\* h1 < h2 are annotated headers of one name with distinct annotation content.
Collision(file, h1, h2) ==
    /\ h1 < h2
    /\ AnnotatedHeader(file, h1, "A")
    /\ h2 \in SameName(file, h1)
    /\ BlockContent(file, h1, "A") # BlockContent(file, h2, "A")

Collisions(file) ==
    {pair \in (1..Len(file)) \X (1..Len(file)) : Collision(file, pair[1], pair[2])}

NoMismatch(file, d) == \A i \in 1..Len(file) : ~Mismatch(file, i, d)

\* The lines of out after position p and before the next line that comes from
\* the input file.
InsertedAfter(out, p) ==
    LET stops == {q \in (p + 1)..Len(out) : out[q].src # 0}
        q == IF stops = {} THEN Len(out) + 1
             ELSE CHOOSE m \in stops : \A n \in stops : m <= n
    IN SubSeq(out, p + 1, q - 1)

\* C8: Design A, two annotated definitions of one name with distinct content:
\* the table holds under that name the content of the last such block only;
\* the output shows after both headers the opening marker and that block's
\* content lines at the header's indentation; no line of the output comes
\* from the earlier block; and the collision raises no fault.
C8_LaterDocstringWins ==
    (runA = 1 /\ pcA \in {"fault", "add", "done"}) =>
    \A pair \in Collisions(input) :
        LET h1 == pair[1]
            name == HeaderName(input[h1])
            last == Max(SameName(input, h1))
            content == BlockContent(input, last, "A")
        IN /\ NoMismatch(input, "A") => pcA # "fault"
           /\ pcA \in {"add", "done"} =>
                 /\ name \in DOMAIN docstrings
                 /\ Len(docstrings[name]) = Len(content)
                 /\ \A k \in 1..Len(content) : docstrings[name][k].txt = content[k]
           /\ WroteA =>
                 /\ \A k \in 1..Len(outA) : outA[k].doc \notin BlockLines(input, h1, "A")
                 /\ \A h \in {pair[1], pair[2]} :
                       \E p \in 1..(Len(outA) - 1) :
                           LET indent == HeaderIndent(input[h]) \o INDENT
                               shown == SelectSeq(InsertedAfter(outA, p),
                                            LAMBDA l : l.doc \in BlockLines(input, last, "A"))
                           IN /\ outA[p].src = h
                              /\ outA[p + 1].txt = indent \o <<QQQ, "!", NL>>
                              /\ Texts(shown) =
                                    [k \in 1..Len(content) |-> indent \o content[k] \o <<NL>>]

C8_Witness ==
    /\ WroteA
    /\ \E pair \in Collisions(input) :
          /\ BlockContent(input, pair[1], "A") # <<>>
          /\ BlockContent(input, pair[2], "A") # <<>>
          /\ pair[2] = Max(SameName(input, pair[1]))

(***************************************************************************)
(* Design A: an annotation block that no header or blank line ends.        *)
(***************************************************************************)
\* A block is still open at the end of the file.
OpenAtEnd(file, d) == OpenAfter(file, Len(file), d)
\* The annotation lines of the block that is open at the end of the file.
TrailingLines(file, d) == BlockLines(file, Len(file) + 1, d)

\* The input has a block that is not ended by a header or a blank line: one
\* that runs to the end of the file, or one followed by an ordinary line.
Dangling(file, d) == OpenAtEnd(file, d) \/ ~NoMismatch(file, d)

\* C9 as stated: Design A converts every file with such a block without
\* raising a fault.
C9_NeverFaults == (runA = 1 /\ Dangling(input, "A")) => pcA # "fault"

\* C9 as amended: a block that runs to the end of the file is dropped
\* silently (no fault comes from it, no output line comes from it, every other
\* line is emitted as usual); a line inside a block that is neither header,
\* blank line, decorator nor continuation line raises a fault in pass 1, and
\* nothing else does.
C9_DroppedAtEndFaultOnOrdinaryLine ==
    /\ (runA = 1 /\ pcA = "fault") => (idxA >= 1 /\ Mismatch(input, idxA, "A"))
    /\ (runA = 1 /\ pcA # "fault") =>
          \A i \in 1..(IF pcA = "parse" THEN idxA ELSE Len(input)) :
              ~Mismatch(input, i, "A")
    /\ (WroteA /\ OpenAtEnd(input, "A")) =>
          /\ \A k \in 1..Len(outA) : outA[k].doc \notin TrailingLines(input, "A")
          /\ Original(outA) = Residual("A")

C9_Witness ==
    /\ WroteA
    /\ OpenAtEnd(input, "A")
    /\ TrailingLines(input, "A") # {}
    /\ InsertedLines(outA) # <<>>
    /\ Original(outA) # <<>>

\* C10: both converters terminate on every finite input: whatever state is
\* reached, either both have finished (with an output or with a fault) or a
\* further step of a scan loop follows.
C10_Terminates == (FinishedA /\ FinishedB) \/ ENABLED Next

\* Pass 2 is followed no further only where it provably goes on for ever: a
\* header line still ahead of line_idx names a table entry one of whose lines
\* is a header of that same name, so that each insertion inserts the next
\* such header.  Design B is never cut short.
Reproduces(name) ==
    /\ name \in DOMAIN docstrings
    /\ \E k \in 1..Len(docstrings[name]) :
          LET t == INDENT \o docstrings[name][k].txt \o <<NL>>
          IN IsHeader(t) /\ HeaderName(t) = name
CutOnlyWhenDiverging ==
    /\ CutA => \E k \in (idxA + 1)..Len(codeA) :
                  /\ IsHeader(codeA[k].txt)
                  /\ Reproduces(HeaderName(codeA[k].txt))
                  /\ \A j \in (idxA + 1)..(k - 1) :
                        ~IsHeader(codeA[j].txt) /\ ~SHEBANG(codeA[j].txt)
    /\ ~CutB

====
